---- MODULE Spec2Model ----
(***************************************************************************)
(* Model of langchain_ethys402: the telemetry batching accumulator         *)
(* (EthysTelemetryCallbackHandler, callbacks.py) together with the parts   *)
(* of auth.py, client.py and types.py that one submission runs through.    *)
(*                                                                         *)
(* One action is one complete call made by the host on the handler: an     *)
(* on_* callback (which appends and, at the threshold, submits), flush(),  *)
(* an assignment to the public attribute `enabled`, or the passing of      *)
(* wall-clock time between two calls.  The variable `last` observes what   *)
(* the most recent call did (what it signed, what it posted, what it       *)
(* raised); it is written by every action and read by none.                *)
(***************************************************************************)
EXTENDS Integers, Sequences, FiniteSets, TLC

VARIABLES
    agent_id,      \* self.agent_id
    address,       \* self.address, a sequence of one-character strings
    private_key,   \* self.private_key
    batch_size,    \* self.batch_size
    max_retries,   \* self.client.config.max_retries
    enabled,       \* self.enabled
    events,        \* self._events
    now,           \* int(time.time()) as the next clock read would return it
    drawn,         \* number of values drawn from the OS random source so far
    attempts,      \* observation: the nonce of every submission attempt so far
    last,          \* observation of the most recent call
    call,          \* the most recent call of a function of auth.py, of
                   \* tools.py or of a method of EthysClient, observed
    client,        \* an EthysClient: its _sync_client and _async_client
    opened,        \* every httpx client constructed so far, open or closed
    task,          \* a _send_telemetry that runs in a background task
    ledger         \* observation: where every recorded event went

vars == <<agent_id, address, private_key, batch_size, max_retries, enabled,
          events, now, drawn, attempts, last, call, client, opened, task,
          ledger>>

----------------------------------------------------------------------------
(* Bounds of the exploration. *)

MaxEvents == 3
MaxTime == 1
MaxAttempts == 2
MaxBatchSize == 2
MaxClients == 3

----------------------------------------------------------------------------
(* Inputs the host and the environment can supply. *)

\* EthysConfig.max_retries, as defaulted.
DefaultMaxRetries == 3

\* No function of auth.py was called.
NoFunctionCall == [fn |-> "none"]

\* EthysClient.__init__: neither httpx client exists (None is 0, an httpx
\* client is its position in `opened`).
NoClients == [sync_client |-> 0, async_client |-> 0]

\* The ledger numbers the events in the order they are recorded: `ids` are
\* the numbers of the events of the batch, in its order, and confirmed[n]
\* counts the confirmed submissions that carried event n.  It is kept only
\* where a property reads it.
NoLedger == [on |-> FALSE, ids |-> <<>>, confirmed |-> <<>>]
EmptyLedger == [on |-> TRUE, ids |-> <<>>, confirmed |-> <<>>]

\* No _send_telemetry runs in the background.
NoTask == [pc |-> "idle"]

AgentIds == {"agent_1"}

\* A wallet address as the host passes it: all lower-case, or in the
\* mixed-case checksum form wallets print.
Addresses == { <<"0", "x", "a", "b">>, <<"0", "x", "A", "b">> }

\* A private key, with the 0x prefix, of an account, and the one of no
\* account: Account.from_key does not accept it.
ValidKey == <<"0", "x", "a", "1">>
PrivateKeys == { ValidKey, <<"0", "x", "z", "z">> }

\* `serialized` as the framework hands it to on_llm_start: plain JSON values,
\* or a mapping that holds an arbitrary Python object.
SerializedValues == {"json", "pyobject"}

\* `output` as handed to on_tool_end.
ToolOutputs == { <<"o", "k">> }

\* c repeated n times
Rep(c, n) == [i \in 1 .. n |-> c]

\* Identities as a caller can ask for them.
IdentityVersions == {0 - 1, 0, 1, 255, 256}
IdentityKinds == {"EOA", "ERC6551", "INVALID"}
IdentityAddresses ==
    { <<"0", "x">> \o Rep("1", 40),
      <<"0", "x", "A", "b", "0", "9">> \o Rep("f", 36),
      <<"0", "X">> \o Rep("1", 40),
      <<"0", "x">> \o Rep("1", 39),
      <<"0", "x">> \o Rep("z", 40),
      <<"0", "x">> \o Rep("1", 38) \o <<" ", " ">> }
IdentityTokenIds == { <<>>, <<0>>, <<1>>, <<258>>, <<0 - 1>> }

\* Identities to compare: addresses that differ in letter case only, in
\* their digits, and in where they hold blanks.
ComparedIdentities ==
    [version : {1, 2},
     identity_type : {"EOA", "ERC6551"},
     address : { <<"0", "x">> \o Rep("1", 40),
                 <<"0", "x", "A", "b", "0", "9">> \o Rep("f", 36),
                 <<"0", "x", "a", "b", "0", "9">> \o Rep("f", 36),
                 <<"0", "x">> \o Rep("1", 38) \o <<" ", " ">>,
                 <<"0", "x", " ", " ">> \o Rep("1", 38) },
     token_id : { <<>>, <<0>>, <<1>> }]

\* identity.identity_type = kind after construction (the model is not
\* frozen and does not validate assignments), or no assignment.
IdentityRetypes == {"unassigned", "EOA", "INVALID"}

\* Messages, keys and expected addresses as a caller of sign_message and
\* verify_signature can pass them.
Messages == {"hello", "other"}
SigningKeys ==
    { <<"0", "x", "a", "1">>, <<"a", "1">>, <<"0", "x", "A", "1">>,
      <<"b", "2">>, <<"z", "z">>, <<"0", "X", "a", "1">> }
ExpectedAddresses ==
    { <<"0", "x", "A", "b">>, <<"0", "x", "a", "b">>, <<"0", "x", "A", "B">>,
      <<"0", "x", "c", "D">>, <<"0", "x", "c", "d">> }

\* What happens to a signature between signing and verification.
Tamperings ==
    {"genuine", "truncated", "off_curve", "bit_flipped", "of_other_message"}

\* Events as a caller of prepare_telemetry_message can pass them: a dict
\* with its keys, and the keys of its data, inserted in one order or the
\* other.
EventValue(event_type, tool, output, forward) ==
    LET data == [t |-> "dict", items |->
                    IF forward
                    THEN << <<"tool", [t |-> "str", s |-> tool]>>,
                            <<"output", [t |-> "str", s |-> output]>> >>
                    ELSE << <<"output", [t |-> "str", s |-> output]>>,
                            <<"tool", [t |-> "str", s |-> tool]>> >>]
    IN  [t |-> "dict", items |->
            IF forward
            THEN << <<"eventType", [t |-> "str", s |-> event_type]>>,
                    <<"timestamp", [t |-> "int", n |-> 1]>>,
                    <<"data", data>> >>
            ELSE << <<"data", data>>,
                    <<"timestamp", [t |-> "int", n |-> 1]>>,
                    <<"eventType", [t |-> "str", s |-> event_type]>> >>]

EventValueLists ==
    { <<>>,
      <<EventValue("tool_end", "search", "ok", TRUE)>>,
      <<EventValue("tool_end", "search", "ok", FALSE)>>,
      <<EventValue("tool_end", "search", "no", TRUE)>>,
      <<EventValue("tool_end", "search", "ok", TRUE),
        EventValue("tool_end", "search", "no", FALSE)>>,
      <<EventValue("tool_end", "search", "no", TRUE),
        EventValue("tool_end", "search", "ok", TRUE)>> }

\* The arguments of one call of prepare_telemetry_message.
MessageAddresses ==
    { <<"0", "x", "a", "b">>, <<"0", "x", "A", "b">>, <<"0", "x", "c", "d">> }
MessageNonces == {"0x01", "0x02"}
MessageArguments ==
    [agent_id : AgentIds, address : MessageAddresses, timestamp : {0, 1},
     nonce : MessageNonces, events : EventValueLists]

\* What the remote endpoint and the network can answer to one POST.
Replies ==
    { [transport |-> "timeout",       status |-> 0,   body |-> "none"],
      [transport |-> "connect_error", status |-> 0,   body |-> "none"],
      [transport |-> "ok",            status |-> 500, body |-> "json_object_error"],
      [transport |-> "ok",            status |-> 200, body |-> "not_json"],
      [transport |-> "ok",            status |-> 200, body |-> "json_list"],
      [transport |-> "ok",            status |-> 200, body |-> "json_object_no_success"],
      [transport |-> "ok",            status |-> 200, body |-> "success_false"],
      [transport |-> "ok",            status |-> 200, body |-> "success_true"] }

\* The identifiers a caller of the trust-score tool can pass.
OptionalAgentIds == { <<>>, <<"">>, <<"agent_1">> }
OptionalAgentIdKeys == { <<>>, <<"">>, <<"0xkey">> }

\* What the remote endpoint and the network can answer to a request made
\* through EthysClient directly.
HttpReplies ==
    { [transport |-> tr, status |-> 0, body |-> "none"] :
         tr \in {"timeout", "connect_error", "read_error"} }
    \cup
    { [transport |-> "ok", status |-> st, body |-> b] :
         st \in {404, 500},
         b \in {"not_json", "empty_text", "json_object_error",
                "json_empty_list", "json_null", "json_empty_object"} }
    \cup
    { [transport |-> "ok", status |-> 200, body |-> b] :
         b \in {"not_json", "json_empty_list", "success_true"} }

----------------------------------------------------------------------------
(* Results of calls: a value, or an exception named by its class. *)

Return(v) == [raised |-> "none", value |-> <<v>>]
Raise(exc) == [raised |-> exc, value |-> <<>>]

\* The classes that derive from Exception among those a submission can meet.
ExceptionClasses ==
    { "ethys.TimeoutError", "ethys.ApiError", "httpx.ConnectError",
      "TypeError", "ValueError", "pydantic.ValidationError" }

----------------------------------------------------------------------------
(* auth.py *)

LowerChar(c) ==
    CASE c = "A" -> "a" [] c = "B" -> "b" [] c = "C" -> "c"
      [] c = "D" -> "d" [] c = "E" -> "e" [] c = "F" -> "f"
      [] c = "X" -> "x" [] OTHER -> c

\* str.lower()
Lower(s) == [i \in DOMAIN s |-> LowerChar(s[i])]

HexDigits ==
    {"0", "1", "2", "3", "4", "5", "6", "7", "8", "9",
     "a", "b", "c", "d", "e", "f", "A", "B", "C", "D", "E", "F"}

\* The value of a hexadecimal digit.
HexVal(c) ==
    CASE c = "0" -> 0 [] c = "1" -> 1 [] c = "2" -> 2 [] c = "3" -> 3
      [] c = "4" -> 4 [] c = "5" -> 5 [] c = "6" -> 6 [] c = "7" -> 7
      [] c = "8" -> 8 [] c = "9" -> 9
      [] c \in {"a", "A"} -> 10 [] c \in {"b", "B"} -> 11
      [] c \in {"c", "C"} -> 12 [] c \in {"d", "D"} -> 13
      [] c \in {"e", "E"} -> 14 [] c \in {"f", "F"} -> 15

\* bytes.fromhex(s), read from position i: white space before a pair of
\* digits is skipped, anything else that is not a pair of digits is a
\* ValueError.
RECURSIVE bytes_fromhex_from(_, _)
bytes_fromhex_from(s, i) ==
    IF i > Len(s) THEN Return(<<>>)
    ELSE IF s[i] = " " THEN bytes_fromhex_from(s, i + 1)
    ELSE IF i + 1 > Len(s) \/ s[i] \notin HexDigits \/ s[i + 1] \notin HexDigits
         THEN Raise("ValueError")
         ELSE LET rest == bytes_fromhex_from(s, i + 2)
              IN  IF rest.raised # "none"
                  THEN rest
                  ELSE Return(<<16 * HexVal(s[i]) + HexVal(s[i + 1])>>
                                  \o rest.value[1])

bytes_fromhex(s) == bytes_fromhex_from(s, 1)

\* The `length` low-order base-256 digits of n, most significant first, and
\* what is left of n above them.
RECURSIVE Digits256(_, _)
Digits256(n, length) ==
    IF length = 0
    THEN [digits |-> <<>>, rest |-> n]
    ELSE LET high == Digits256(n \div 256, length - 1)
         IN  [digits |-> Append(high.digits, n % 256), rest |-> high.rest]

\* int.to_bytes(length, "big")
int_to_bytes_little(n, length) ==
    IF n < 0 \/ Digits256(n, length).rest # 0
    THEN Raise("OverflowError")
    ELSE LET d == Digits256(n, length).digits
         IN  Return([i \in 1 .. length |-> d[length + 1 - i]])
int_to_bytes(n, length) ==
    IF n < 0 \/ Digits256(n, length).rest # 0
    THEN Raise("OverflowError")
    ELSE Return(Digits256(n, length).digits)

\* The widths of the encoding.
AddressChars == 42
TokenIdBytes == 32

\* str.startswith("0x")
StartsWith0x(s) == Len(s) >= 2 /\ s[1] = "0" /\ s[2] = "x"

\* AgentIdentity(version=, identity_type=, address=, token_id=): the two
\* field validators; an optional token_id is <<>> or <<n>>.
AgentIdentity(version, kind, addr, token) ==
    IF kind \notin {"EOA", "ERC6551"}
    THEN Raise("pydantic.ValidationError")
    ELSE IF ~StartsWith0x(addr) \/ Len(addr) # AddressChars
         THEN Raise("pydantic.ValidationError")
         ELSE Return([version |-> version, identity_type |-> kind,
                      address |-> Lower(addr), token_id |-> token])

\* The first exception among the parts, or their concatenation.
Concat4(a, b, c, d) ==
    IF a.raised # "none" THEN a
    ELSE IF b.raised # "none" THEN b
    ELSE IF c.raised # "none" THEN c
    ELSE IF d.raised # "none" THEN d
    ELSE Return(a.value[1] \o b.value[1] \o c.value[1] \o d.value[1])

\* The token id an ERC6551 identity is encoded with: `token_id.to_bytes(32,
\* "big") if token_id else (0).to_bytes(32, "big")`.
Erc6551TokenBytes(token) ==
    IF token # <<>> /\ token[1] # 0
    THEN int_to_bytes(token[1], TokenIdBytes)
    ELSE int_to_bytes(0, TokenIdBytes)

encode_agent_identity(identity) ==
    IF identity.identity_type = "EOA"
    THEN Concat4(int_to_bytes(identity.version, 1),
                 int_to_bytes(1, 1),
                 bytes_fromhex(SubSeq(identity.address, 3, Len(identity.address))),
                 int_to_bytes(0, TokenIdBytes))
    ELSE IF identity.identity_type = "ERC6551"
    THEN Concat4(int_to_bytes(identity.version, 1),
                 int_to_bytes(2, 1),
                 bytes_fromhex(SubSeq(identity.address, 3, Len(identity.address))),
                 Erc6551TokenBytes(identity.token_id))
    ELSE Raise("ethys.ValidationError")

\* derive_agent_id_key: to_hex(keccak(encoded)).  The hash is kept as the
\* bytes it was taken of: two keys are equal exactly when the encodings are.
derive_agent_id_key(identity) ==
    LET encoded == encode_agent_identity(identity)
    IN  IF encoded.raised # "none"
        THEN encoded
        ELSE Return([keccak |-> encoded.value[1]])

\* generate_nonce: 32 bytes from secrets.token_bytes.  The k-th draw is the
\* value k: distinct draws are distinct values (two draws collide with
\* probability 2^-256, which the model leaves out).
generate_nonce_reuse(k) == 1
generate_nonce(k) == k + 1

\* json.dumps raises TypeError on a value that is not JSON.
JsonSerializable(ev) ==
    \A i \in DOMAIN ev :
        ("serialized" \in DOMAIN ev[i].data) => ev[i].data.serialized = "json"

\* prepare_telemetry_message: json.dumps, sorted keys, of these five fields.
\* The string is modelled by the mapping it serializes.
prepare_telemetry_message(aid, addr, timestamp, nonce, ev) ==
    IF JsonSerializable(ev)
    THEN Return([agentId |-> aid, address |-> Lower(addr), ts |-> timestamp,
                 nonce |-> nonce, events |-> ev])
    ELSE Raise("TypeError")

\* sign_message: Account.from_key rejects a malformed key; the signature
\* binds the key to the exact message.
\* Python values as json.dumps sees them: [t |-> "str", s |-> ...],
\* [t |-> "int", n |-> ...], [t |-> "chars", c |-> <<...>>] (a str kept as its
\* characters), [t |-> "list", elems |-> <<...>>] and [t |-> "dict",
\* items |-> <<...>>], the items of a dict being its <<key, value>> pairs in
\* insertion order.

\* The place of a key in the order of str, which sort_keys sorts by.
KeyRank(k) ==
    CASE k = "address" -> 1 [] k = "agentId" -> 2 [] k = "data" -> 3
      [] k = "eventType" -> 4 [] k = "events" -> 5 [] k = "nonce" -> 6
      [] k = "output" -> 7 [] k = "timestamp" -> 8 [] k = "tool" -> 9
      [] k = "ts" -> 10

\* sorted(items), by key.
RECURSIVE SortedItems(_)
SortedItems(items) ==
    IF items = <<>> THEN <<>>
    ELSE LET least == CHOOSE i \in 1 .. Len(items) :
                         \A j \in 1 .. Len(items) :
                            KeyRank(items[i][1]) <= KeyRank(items[j][1])
         IN  <<items[least]>>
                \o SortedItems([j \in 1 .. Len(items) - 1 |->
                                   IF j < least THEN items[j] ELSE items[j + 1]])

\* The order json.dumps writes the items of a dict in: sort_keys=True.
DictItemsAsInserted(items) == items
DictItems(items) == SortedItems(items)

\* json.dumps(value, sort_keys=True, separators=(",", ":")), the text as
\* the sequence of its pieces.
RECURSIVE json_dumps(_)
RECURSIVE json_dumps_items(_, _)
RECURSIVE json_dumps_elems(_, _)
json_dumps(value) ==
    CASE value.t = "str" -> <<"\"", value.s, "\"">>
      [] value.t = "chars" -> <<"\"">> \o value.c \o <<"\"">>
      [] value.t = "int" -> <<ToString(value.n)>>
      [] value.t = "list" -> <<"[">> \o json_dumps_elems(value.elems, 1) \o <<"]">>
      [] value.t = "dict" ->
            <<"{">> \o json_dumps_items(DictItems(value.items), 1) \o <<"}">>
json_dumps_items(items, i) ==
    IF i > Len(items) THEN <<>>
    ELSE (IF i > 1 THEN <<",">> ELSE <<>>)
            \o <<"\"", items[i][1], "\"", ":">> \o json_dumps(items[i][2])
            \o json_dumps_items(items, i + 1)
json_dumps_elems(elems, i) ==
    IF i > Len(elems) THEN <<>>
    ELSE (IF i > 1 THEN <<",">> ELSE <<>>)
            \o json_dumps(elems[i]) \o json_dumps_elems(elems, i + 1)

\* prepare_telemetry_message as the text it returns, for events given as
\* Python values.
prepare_telemetry_message_json(aid, addr, timestamp, nonce, ev) ==
    json_dumps([t |-> "dict", items |-> <<
        <<"agentId", [t |-> "str", s |-> aid]>>,
        <<"address", [t |-> "chars", c |-> Lower(addr)]>>,
        <<"ts", [t |-> "int", n |-> timestamp]>>,
        <<"nonce", [t |-> "str", s |-> nonce]>>,
        <<"events", [t |-> "list", elems |-> ev]>> >>])

\* The private keys that have an account, in hexadecimal.
AccountKeys == { <<"a", "1">>, <<"b", "2">> }

\* Account.from_key(key).address: the address in its checksum form.
address_of(hexkey) ==
    IF hexkey = <<"a", "1">> THEN <<"0", "x", "A", "b">>
                             ELSE <<"0", "x", "c", "D">>

\* The signer that recovery yields for a signature that was made for
\* another message or that was altered: the address of no account.
StrangerAddress == <<"0", "x", "E", "e">>

\* Account.from_key(private_key): the hexadecimal digits after the prefix,
\* in either case, are the key of an account, or it is a ValueError.
Account_from_key(key) ==
    LET hexkey == Lower(SubSeq(key, 3, Len(key)))
    IN  IF hexkey \in AccountKeys THEN Return(hexkey) ELSE Raise("ValueError")

\* `if not private_key.startswith("0x"): private_key = "0x" + private_key`
with_0x_unchanged(key) == key
with_0x(key) == IF StartsWith0x(key) THEN key ELSE <<"0", "x">> \o key

\* sign_message: Account.from_key rejects a malformed key; the signature
\* binds the account to the exact message.
sign_message(message, key) ==
    LET account == Account_from_key(with_0x(key))
    IN  IF account.raised # "none"
        THEN account
        ELSE Return([form |-> "rsv", signer |-> address_of(account.value[1]),
                     message |-> message])

\* Account.recover_message(message, signature=signature): a signature that
\* is not 65 bytes in hexadecimal is a ValueError, one whose values are on
\* no curve point is BadSignature, any other one has a signer.
recover_message(message, signature) ==
    IF signature.form = "malformed" THEN Raise("ValueError")
    ELSE IF signature.form = "unrecoverable" THEN Raise("eth_keys.BadSignature")
    ELSE IF signature.message = message THEN Return(signature.signer)
    ELSE Return(StrangerAddress)

\* `except Exception: return False`
VerifyReraises(exc) == Raise(exc)
VerifyOnException(exc) == Return(FALSE)

verify_signature(message, signature, addr) ==
    LET recovered == recover_message(message, signature)
    IN  IF recovered.raised # "none"
        THEN VerifyOnException(recovered.raised)
        ELSE Return(Lower(recovered.value[1]) = Lower(addr))

sign_telemetry_request(aid, addr, timestamp, nonce, ev, key) ==
    LET message == prepare_telemetry_message(aid, addr, timestamp, nonce, ev)
    IN  IF message.raised # "none"
        THEN Raise(message.raised)
        ELSE sign_message(message.value[1], key)

----------------------------------------------------------------------------
(* types.py *)

\* TelemetryEvent(**event): populated by alias, stored by field name.
TelemetryEvent(event) ==
    [event_type |-> event.eventType, timestamp |-> event.timestamp,
     data |-> event.data]

\* TelemetryEvent.model_dump(by_alias=True)
TelemetryEvent_model_dump(m) ==
    [eventType |-> m.event_type, timestamp |-> m.timestamp, data |-> m.data]

\* TelemetryRequest(...).model_dump(by_alias=True): the JSON body of the POST.
TelemetryRequest_model_dump_reversed(aid, addr, timestamp, nonce, evdumps, signature) ==
    [agentId |-> aid, address |-> addr, ts |-> timestamp, nonce |-> nonce,
     events |-> [i \in DOMAIN evdumps |-> evdumps[Len(evdumps) + 1 - i]],
     signature |-> signature]
TelemetryRequest_model_dump(aid, addr, timestamp, nonce, evdumps, signature) ==
    [agentId |-> aid, address |-> addr, ts |-> timestamp, nonce |-> nonce,
     events |-> [i \in DOMAIN evdumps |->
                    TelemetryEvent_model_dump(TelemetryEvent(evdumps[i]))],
     signature |-> signature]

\* TelemetryResponse(**response)
TelemetryResponse(body) ==
    CASE body = "json_list" -> Raise("TypeError")
      [] body = "json_object_no_success" -> Raise("pydantic.ValidationError")
      [] body = "success_true" -> Return([success |-> TRUE])
      [] OTHER -> Return([success |-> FALSE])

----------------------------------------------------------------------------
(* client.py *)

\* response.json(): the parsed body, a JSON value being named by what it
\* is, or JSONDecodeError for a text that is not JSON.
response_json(body) ==
    IF body \in {"not_json", "empty_text"}
    THEN Raise("json.JSONDecodeError")
    ELSE Return(body)

\* bool(value) is False for these JSON values.
Falsy(value) == value \in {"json_null", "json_empty_list", "json_empty_object"}

\* A response body as ApiError holds it: a parsed JSON value (wrap "none"),
\* or the raw text under the key "error" or "raw".
Wrapped(wrap, content) == [wrap |-> wrap, content |-> content]

\* ApiError(message, status_code, response_body): `response_body or {}`.
ApiErrorKeepsBody(status_code, response_body) ==
    [raised |-> "ethys.ApiError", value |-> <<>>,
     status_code |-> status_code, response_body |-> response_body]
ApiError(status_code, response_body) ==
    [raised |-> "ethys.ApiError", value |-> <<>>,
     status_code |-> status_code,
     response_body |->
        IF response_body.wrap = "none" /\ Falsy(response_body.content)
        THEN Wrapped("none", "json_empty_object")
        ELSE response_body]

\* EthysClient._handle_response
handle_response(reply) ==
    LET parsed == response_json(reply.body)
    IN  IF reply.status >= 400
        THEN ApiError(reply.status,
                      IF parsed.raised # "none"
                      THEN Wrapped("error", reply.body)
                      ELSE Wrapped("none", parsed.value[1]))
        ELSE IF parsed.raised # "none"
             THEN ApiError(reply.status, Wrapped("raw", reply.body))
             ELSE parsed

\* The httpx exception of a transport failure that is not a timeout.
TransportError(transport) ==
    IF transport = "connect_error" THEN "httpx.ConnectError"
                                   ELSE "httpx.ReadError"

\* EthysClient.post: only httpx.TimeoutException is translated; any other
\* transport error leaves as the httpx exception it is.
client_post(reply) ==
    CASE reply.transport = "timeout" -> Raise("ethys.TimeoutError")
      [] reply.transport = "ok" -> handle_response(reply)
      [] OTHER -> Raise(TransportError(reply.transport))

\* EthysClient.get, aget and apost: the same try block as post.
client_get(reply) ==
    CASE reply.transport = "timeout" -> Raise("ethys.TimeoutError")
      [] reply.transport = "ok" -> handle_response(reply)
      [] OTHER -> Raise(TransportError(reply.transport))

client_aget(reply) ==
    CASE reply.transport = "timeout" -> Raise("ethys.TimeoutError")
      [] reply.transport = "ok" -> handle_response(reply)
      [] OTHER -> Raise(TransportError(reply.transport))

client_apost(reply) ==
    CASE reply.transport = "timeout" -> Raise("ethys.TimeoutError")
      [] reply.transport = "ok" -> handle_response(reply)
      [] OTHER -> Raise(TransportError(reply.transport))

\* EthysClient._get_sync_client and _get_async_client on the references c
\* and the httpx clients o made so far: the new references and clients.
get_sync_client_fresh(c, o) ==
    [client |-> [c EXCEPT !.sync_client = Len(o) + 1],
     opened |-> Append(o, [kind |-> "sync", closed |-> FALSE])]
get_sync_client(c, o) ==
    IF c.sync_client = 0
    THEN [client |-> [c EXCEPT !.sync_client = Len(o) + 1],
          opened |-> Append(o, [kind |-> "sync", closed |-> FALSE])]
    ELSE [client |-> c, opened |-> o]

get_async_client(c, o) ==
    IF c.async_client = 0
    THEN [client |-> [c EXCEPT !.async_client = Len(o) + 1],
          opened |-> Append(o, [kind |-> "async", closed |-> FALSE])]
    ELSE [client |-> c, opened |-> o]

\* The HTTP requests one call of EthysClient.post issues when the answer
\* is `reply` and the configuration says `retries`: post calls
\* httpx.Client.post once and never reads config.max_retries.
client_requests_retrying(retries, reply) ==
    IF reply.transport # "ok" \/ reply.status >= 500 THEN 1 + retries ELSE 1
client_requests(retries, reply) == 1

----------------------------------------------------------------------------
(* tools.py: the trust-score tool *)

\* An Optional[str] argument: <<>> is None, <<s>> the string s.
\* `not value`: None and the empty string.
NotGiven(value) == value = <<>> \/ value = <<"">>

\* TrustScoreRequest(...).model_dump(by_alias=True, exclude_none=True): the
\* fields that are not None, under their aliases.
TrustScoreQuery(id, key) ==
    (IF id = <<>> THEN <<>> ELSE << <<"agentId", id>> >>)
       \o (IF key = <<>> THEN <<>> ELSE << <<"agentIdKey", key>> >>)

\* TrustScoreResponse(**response)
TrustScoreResponse(body) ==
    CASE body = "success_true" -> Return([success |-> TRUE])
      [] body = "json_empty_list" -> Raise("TypeError")
      [] OTHER -> Raise("pydantic.ValidationError")

\* _trust_score_sync and _trust_score_async, `answer` being what
\* client.get or client.aget does: the result, the EthysClient objects
\* constructed and the requests sent.
trust_score(id, key, answer) ==
    IF NotGiven(id) /\ NotGiven(key)
    THEN [result |-> Raise("ethys.ValidationError"), clients |-> 0,
          requests |-> <<>>]
    ELSE [result |-> IF answer.raised # "none"
                     THEN answer
                     ELSE TrustScoreResponse(answer.value[1]),
          clients |-> 1,
          requests |-> << [method |-> "GET", path |-> "/api/v1/402/trust/score",
                           params |-> TrustScoreQuery(id, key)] >>]

----------------------------------------------------------------------------
(* callbacks.py: EthysTelemetryCallbackHandler *)

NoCall ==
    [sends |-> 0, tried |-> FALSE, batch |-> <<>>, nonces |-> <<>>,
     signed |-> <<>>, posted |-> <<>>, outcome |-> "none", raised |-> "none",
     warned |-> FALSE]

\* `except Exception` of _send_telemetry
CaughtOnlyEthysErrors(exc) == exc \in {"ethys.TimeoutError", "ethys.ApiError"}
Caught(exc) == exc \in ExceptionClasses

\* The batch after a response was parsed.
EventsAfterResponseAlwaysClear(ev, success) == <<>>
EventsAfterResponse(ev, success) == IF success THEN <<>> ELSE ev

\* The batch after the try block was left by an exception.
EventsAfterExceptionDropped(ev) == <<>>
EventsAfterException(ev) == ev

\* The first statement of _send_telemetry.
SendGuardIgnoresEnabled(ev, en) == ev # <<>>
SendGuard(ev, en) == ~(ev = <<>> \/ ~en)

\* The try block left by exception exc after `seen` was observed.
Excepted(ev, exc, seen) ==
    [events |-> EventsAfterException(ev),
     seen |-> [seen EXCEPT !.outcome = exc,
                           !.raised = IF Caught(exc) THEN "none" ELSE exc,
                           !.warned = Caught(exc)]]

\* _send_telemetry on batch ev at clock reading t, with k values drawn from
\* the random source so far and `reply` the answer a POST would get.
\* The result holds the new batch and what the call was seen to do.
send_telemetry(aid, addr, key, ev, en, t, k, reply) ==
    IF ~SendGuard(ev, en)
    THEN [events |-> ev,
          seen |-> [NoCall EXCEPT !.sends = 1, !.batch = ev,
                                  !.outcome = "skipped"]]
    ELSE
    LET nonce == generate_nonce(k)
        entered == [NoCall EXCEPT !.sends = 1, !.tried = TRUE, !.batch = ev,
                                  !.nonces = <<nonce>>]
        signature == sign_telemetry_request(aid, addr, t, nonce, ev, key)
    IN  IF signature.raised # "none"
        THEN Excepted(ev, signature.raised, entered)
        ELSE
        LET telemetry_events == [i \in DOMAIN ev |-> TelemetryEvent(ev[i])]
            body == TelemetryRequest_model_dump(aid, addr, t, nonce,
                        [i \in DOMAIN ev |->
                            TelemetryEvent_model_dump(telemetry_events[i])],
                        signature.value[1])
            sent == [entered EXCEPT !.signed = <<signature.value[1]>>,
                                    !.posted =
                                        [i \in 1 .. client_requests(max_retries, reply)
                                            |-> body]]
            response == client_post(reply)
        IN  IF response.raised # "none"
            THEN Excepted(ev, response.raised, sent)
            ELSE
            LET telemetry_response == TelemetryResponse(response.value[1])
            IN  IF telemetry_response.raised # "none"
                THEN Excepted(ev, telemetry_response.raised, sent)
                ELSE
                LET success == telemetry_response.value[1].success
                IN  [events |-> EventsAfterResponse(ev, success),
                     seen |-> [sent EXCEPT
                                 !.outcome = IF success THEN "success"
                                                        ELSE "rejected",
                                 !.warned = ~success]]

\* The ledger after an event was appended to the batch.
LedgerRecorded(l) ==
    IF ~l.on THEN l
    ELSE [l EXCEPT !.ids = Append(@, Len(l.confirmed) + 1),
                   !.confirmed = Append(@, 0)]

\* The ledger after _send_telemetry was seen to do `seen` and left a batch
\* of `left` events: a confirmed submission counts for the events its body
\* carried, and the events still in the batch keep their numbers.
LedgerSubmitted(l, seen, left) ==
    IF ~l.on THEN l
    ELSE LET carried == IF seen.outcome = "success"
                        THEN Len(seen.posted[1].events) ELSE 0
         IN  [l EXCEPT
                !.confirmed = [n \in DOMAIN l.confirmed |->
                                  l.confirmed[n]
                                     + Cardinality({p \in 1 .. carried : l.ids[p] = n})],
                !.ids = SubSeq(l.ids, 1, left)]

\* The threshold test of _add_event.
ThresholdReachedExact(ev, size) == Len(ev) = size
ThresholdReachedStrict(ev, size) == Len(ev) > size
ThresholdReachedEarly(ev, size) == Len(ev) + 1 >= size
ThresholdReachedNever(ev, size) == FALSE
ThresholdReached(ev, size) == Len(ev) >= size

\* The first statement of _add_event.
AddGuardAlways(en) == TRUE
AddGuard(en) == en

\* Clock readings a call can see after the reading t: the clock may have
\* moved on between two statements.
Later(t) == {u \in t .. t + 1 : u <= MaxTime}

\* _add_event(event_type, data), the clock reading t at the append.
add_event(event_type, data, t) ==
    IF ~AddGuard(enabled)
    THEN /\ events' = events
         /\ drawn' = drawn
         /\ attempts' = attempts
         /\ now' = t
         /\ ledger' = ledger
         /\ last' = [NoCall EXCEPT !.outcome = "disabled"]
                       @@ [op |-> "record"]
    ELSE
    LET event == [eventType |-> event_type, timestamp |-> t, data |-> data]
        appended == Append(events, event)
    IN  IF ThresholdReached(appended, batch_size)
        THEN \E t2 \in Later(t), reply \in Replies :
                LET r == send_telemetry(agent_id, address, private_key,
                                        appended, enabled, t2, drawn, reply)
                IN  /\ events' = r.events
                    /\ drawn' = drawn + Len(r.seen.nonces)
                    /\ attempts' = attempts \o r.seen.nonces
                    /\ now' = t2
                    /\ ledger' = LedgerSubmitted(LedgerRecorded(ledger),
                                                 r.seen, Len(r.events))
                    /\ last' = r.seen @@ [op |-> "record"]
        ELSE /\ events' = appended
             /\ drawn' = drawn
             /\ attempts' = attempts
             /\ now' = t
             /\ ledger' = LedgerRecorded(ledger)
             /\ last' = NoCall @@ [op |-> "record"]

\* What no call on the handler changes: its configuration (and the
\* observation of auth.py's functions, which the handler's callers never
\* make).
Config ==
    <<agent_id, address, private_key, batch_size, max_retries, call, client,
      opened, task>>

\* on_llm_start(serialized, prompts)
on_llm_start ==
    /\ Len(events) < MaxEvents
    /\ drawn < MaxAttempts
    /\ \E serialized \in SerializedValues :
          add_event("llm_start",
                    [serialized |-> serialized, prompt_count |-> 1], now)
    /\ UNCHANGED <<Config, enabled>>

\* on_tool_end(output)
on_tool_end ==
    /\ Len(events) < MaxEvents
    /\ drawn < MaxAttempts
    /\ \E output \in ToolOutputs :
          add_event("tool_end", [output_length |-> Len(output)], now)
    /\ UNCHANGED <<Config, enabled>>

\* flush()
flush ==
    /\ drawn < MaxAttempts
    /\ \E reply \in Replies :
          LET r == send_telemetry(agent_id, address, private_key, events,
                                  enabled, now, drawn, reply)
          IN  /\ events' = r.events
              /\ drawn' = drawn + Len(r.seen.nonces)
              /\ attempts' = attempts \o r.seen.nonces
              /\ ledger' = LedgerSubmitted(ledger, r.seen, Len(r.events))
              /\ last' = r.seen @@ [op |-> "flush"]
    /\ UNCHANGED <<Config, enabled, now>>

\* handler.enabled = b
set_enabled ==
    /\ \E b \in BOOLEAN : enabled' = b /\ b # enabled
    /\ last' = NoCall @@ [op |-> "set_enabled"]
    /\ UNCHANGED <<Config, events, now, drawn, attempts, ledger>>

\* Time passes between two calls.
tick ==
    /\ now < MaxTime
    /\ now' = now + 1
    /\ last' = NoCall @@ [op |-> "tick"]
    /\ UNCHANGED <<Config, enabled, events, drawn, attempts, ledger>>

\* EthysTelemetryCallbackHandler.__init__
Init ==
    /\ agent_id \in AgentIds
    /\ address \in Addresses
    /\ private_key \in PrivateKeys
    /\ batch_size \in 1 .. MaxBatchSize
    /\ max_retries = DefaultMaxRetries
    /\ call = NoFunctionCall
    /\ client = NoClients
    /\ opened = <<>>
    /\ task = NoTask
    /\ ledger = NoLedger
    /\ enabled \in BOOLEAN
    /\ events = <<>>
    /\ now = 0
    /\ drawn = 0
    /\ attempts = <<>>
    /\ last = NoCall @@ [op |-> "init"]

\* `except Exception: pass` of __del__
DelSwallowsNothing(exc) == FALSE
DelSwallows(exc) == exc \in ExceptionClasses

\* __del__: the handler is collected; it is called once and nothing is
\* called after it.
handler_del ==
    /\ last.op # "del"
    /\ \E reply \in Replies :
          LET r == send_telemetry(agent_id, address, private_key, events,
                                  enabled, now, drawn, reply)
              escaped == IF r.seen.raised = "none" \/ DelSwallows(r.seen.raised)
                         THEN "none" ELSE r.seen.raised
          IN  /\ events' = r.events
              /\ drawn' = drawn + Len(r.seen.nonces)
              /\ attempts' = attempts \o r.seen.nonces
              /\ ledger' = LedgerSubmitted(ledger, r.seen, Len(r.events))
              /\ last' = [r.seen EXCEPT !.raised = escaped] @@ [op |-> "del"]
    /\ UNCHANGED <<Config, enabled, now>>

\* A handler that is used and then collected.
InitDispose ==
    /\ agent_id \in AgentIds
    /\ address = <<"0", "x", "a", "b">>
    /\ private_key \in PrivateKeys
    /\ batch_size \in 1 .. MaxBatchSize
    /\ max_retries = DefaultMaxRetries
    /\ call = NoFunctionCall
    /\ client = NoClients
    /\ opened = <<>>
    /\ task = NoTask
    /\ ledger = NoLedger
    /\ enabled \in BOOLEAN
    /\ events = <<>>
    /\ now = 0
    /\ drawn = 0
    /\ attempts = <<>>
    /\ last = NoCall @@ [op |-> "init"]

\* A handler whose events are followed by the ledger.
InitLedger ==
    /\ agent_id \in AgentIds
    /\ address = <<"0", "x", "a", "b">>
    /\ private_key \in PrivateKeys
    /\ batch_size \in 1 .. MaxBatchSize
    /\ max_retries = DefaultMaxRetries
    /\ call = NoFunctionCall
    /\ client = NoClients
    /\ opened = <<>>
    /\ task = NoTask
    /\ ledger = EmptyLedger
    /\ enabled \in BOOLEAN
    /\ events = <<>>
    /\ now = 0
    /\ drawn = 0
    /\ attempts = <<>>
    /\ last = NoCall @@ [op |-> "init"]

\* A handler with a usable key and any retry setting of its client.
RetrySettings == {0, 1, DefaultMaxRetries}

InitRetries ==
    /\ agent_id \in AgentIds
    /\ address = <<"0", "x", "a", "b">>
    /\ private_key = ValidKey
    /\ batch_size \in 1 .. MaxBatchSize
    /\ max_retries \in RetrySettings
    /\ call = NoFunctionCall
    /\ client = NoClients
    /\ opened = <<>>
    /\ task = NoTask
    /\ ledger = NoLedger
    /\ enabled = TRUE
    /\ events = <<>>
    /\ now = 0
    /\ drawn = 0
    /\ attempts = <<>>
    /\ last = NoCall @@ [op |-> "init"]

\* The ledger after the background _send_telemetry that posted the events
\* numbered `sent` was answered: its success confirms what it posted and
\* rebinds self._events to an empty list.
LedgerAnswered(l, sent, success) ==
    IF ~l.on \/ ~success THEN l
    ELSE [l EXCEPT
            !.confirmed = [n \in DOMAIN l.confirmed |->
                              l.confirmed[n]
                                 + Cardinality({p \in DOMAIN sent : sent[p] = n})],
            !.ids = <<>>]

\* What a step of the background _send_telemetry leaves alone.
TaskConfig ==
    <<agent_id, address, private_key, batch_size, max_retries, enabled, now,
      last, call, client, opened>>

\* flush() in a background task, up to the signature: the guard, the clock
\* and the nonce are read and sign_telemetry_request serializes the list
\* self._events as it is now.  A signing failure ends the call.
task_sign ==
    /\ task.pc = "idle"
    /\ drawn < MaxAttempts
    /\ SendGuard(events, enabled)
    /\ LET nonce == generate_nonce(drawn)
           signature == sign_telemetry_request(agent_id, address, now, nonce,
                                               events, private_key)
       IN  /\ drawn' = drawn + 1
           /\ attempts' = Append(attempts, nonce)
           /\ events' = EventsAfterException(events)
           /\ task' = IF signature.raised # "none" THEN NoTask
                      ELSE [pc |-> "signed", timestamp |-> now,
                            nonce |-> nonce,
                            signature |-> signature.value[1],
                            posted |-> <<>>, ids |-> <<>>]
    /\ UNCHANGED <<TaskConfig, ledger>>

\* The background task builds the request from self._events as it is
\* now and sends it.
task_post ==
    /\ task.pc = "signed"
    /\ LET telemetry_events == [i \in DOMAIN events |-> TelemetryEvent(events[i])]
           body == TelemetryRequest_model_dump(agent_id, address,
                       task.timestamp, task.nonce,
                       [i \in DOMAIN events |->
                           TelemetryEvent_model_dump(telemetry_events[i])],
                       task.signature)
       IN  task' = [task EXCEPT !.pc = "posted", !.posted = <<body>>,
                                !.ids = ledger.ids]
    /\ UNCHANGED <<TaskConfig, events, drawn, attempts, ledger>>

\* The request of the background task is answered, or fails: on success
\* self._events is rebound to an empty list, otherwise it is left alone.
task_answered ==
    /\ task.pc = "posted"
    /\ \E reply \in Replies :
          LET response == client_post(reply)
              telemetry_response ==
                  IF response.raised # "none" THEN response
                  ELSE TelemetryResponse(response.value[1])
              success == /\ telemetry_response.raised = "none"
                         /\ telemetry_response.value[1].success
          IN  /\ events' = IF telemetry_response.raised # "none"
                           THEN EventsAfterException(events)
                           ELSE EventsAfterResponse(events, success)
              /\ ledger' = LedgerAnswered(ledger, task.ids, success)
    /\ task' = NoTask
    /\ UNCHANGED <<TaskConfig, drawn, attempts>>

\* A handler whose host records on the workflow thread while flush runs in
\* a background task.
InitConcurrent ==
    /\ agent_id \in AgentIds
    /\ address = <<"0", "x", "a", "b">>
    /\ private_key \in PrivateKeys
    /\ batch_size \in 1 .. MaxBatchSize + 1
    /\ max_retries = DefaultMaxRetries
    /\ call = NoFunctionCall
    /\ client = NoClients
    /\ opened = <<>>
    /\ task = NoTask
    /\ ledger = EmptyLedger
    /\ enabled \in BOOLEAN
    /\ events = <<>>
    /\ now = 0
    /\ drawn = 0
    /\ attempts = <<>>
    /\ last = NoCall @@ [op |-> "init"]

\* The handler's own state, which a call of a function of auth.py leaves
\* alone.
HandlerVars ==
    <<agent_id, address, private_key, batch_size, max_retries, enabled,
      events, now, drawn, attempts, last, client, opened, task, ledger>>

\* encode_agent_identity(AgentIdentity(...)), the identity_type possibly
\* assigned in between.
call_encode_agent_identity ==
    /\ call.fn = "encode_agent_identity"
    /\ call.state = "called"
    /\ LET made == AgentIdentity(call.input.version, call.input.identity_type,
                                 call.input.address, call.input.token_id)
           identity == IF made.raised # "none" \/ call.input.retype = "unassigned"
                       THEN made
                       ELSE Return([made.value[1] EXCEPT
                                       !.identity_type = call.input.retype])
       IN  call' = [state |-> "returned",
                    identity |-> identity,
                    result |-> IF identity.raised # "none"
                               THEN identity
                               ELSE encode_agent_identity(identity.value[1])]
                   @@ call
    /\ UNCHANGED HandlerVars

\* The signature as it reaches verify_signature.
Tampered(signature, tampering) ==
    CASE tampering = "genuine" -> signature
      [] tampering = "truncated" -> [signature EXCEPT !.form = "malformed"]
      [] tampering = "off_curve" -> [signature EXCEPT !.form = "unrecoverable"]
      [] tampering = "bit_flipped" -> [signature EXCEPT !.signer = StrangerAddress]
      [] tampering = "of_other_message" ->
            [signature EXCEPT !.message = IF @ = "hello" THEN "other" ELSE "hello"]

\* verify_signature(message, sign_message(message, key), expected), the
\* signature possibly altered in between.
call_verify_signature ==
    /\ call.fn = "verify_signature"
    /\ call.state = "called"
    /\ LET signed == sign_message(call.input.message, call.input.key)
       IN  call' = [state |-> "returned",
                    signed |-> signed,
                    result |-> IF signed.raised # "none"
                               THEN signed
                               ELSE verify_signature(
                                        call.input.message,
                                        Tampered(signed.value[1], call.input.tampering),
                                        call.input.expected)]
                   @@ call
    /\ UNCHANGED HandlerVars

VerifyCalls ==
    { [fn |-> "verify_signature", state |-> "called",
       input |-> [message |-> message, key |-> key, tampering |-> tampering,
                  expected |-> expected]] :
         message \in Messages, key \in SigningKeys, tampering \in Tamperings,
         expected \in ExpectedAddresses }

\* Two independent calls of prepare_telemetry_message.
call_prepare_telemetry_message ==
    /\ call.fn = "prepare_telemetry_message"
    /\ call.state = "called"
    /\ LET text(a) == prepare_telemetry_message_json(
                          a.agent_id, a.address, a.timestamp, a.nonce, a.events)
       IN  call' = [state |-> "returned",
                    result |-> [first |-> text(call.input.first),
                                second |-> text(call.input.second)]]
                   @@ call
    /\ UNCHANGED HandlerVars

PrepareCalls ==
    { [fn |-> "prepare_telemetry_message", state |-> "called",
       input |-> [first |-> first, second |-> second]] :
         first \in MessageArguments, second \in MessageArguments }

\* derive_agent_id_key of two identities.
call_derive_agent_id_key ==
    /\ call.fn = "derive_agent_id_key"
    /\ call.state = "called"
    /\ LET key(a) ==
              LET made == AgentIdentity(a.version, a.identity_type, a.address,
                                        a.token_id)
              IN  IF made.raised # "none" THEN made
                  ELSE derive_agent_id_key(made.value[1])
       IN  call' = [state |-> "returned",
                    result |-> [first |-> key(call.input.first),
                                second |-> key(call.input.second)]]
                   @@ call
    /\ UNCHANGED HandlerVars

DeriveCalls ==
    { [fn |-> "derive_agent_id_key", state |-> "called",
       input |-> [first |-> first, second |-> second]] :
         first \in ComparedIdentities, second \in ComparedIdentities }

\* The calls of encode_agent_identity, their arguments drawn.
EncodeCalls ==
    { [fn |-> "encode_agent_identity", state |-> "called",
       input |-> [version |-> version, identity_type |-> kind,
                  address |-> addr, token_id |-> token, retype |-> retype]] :
         version \in IdentityVersions, kind \in IdentityKinds,
         addr \in IdentityAddresses, token \in IdentityTokenIds,
         retype \in IdentityRetypes }

\* No handler in use: the functions of auth.py called on their own.
InitAuth ==
    /\ agent_id = "agent_1"
    /\ address = <<"0", "x", "a", "b">>
    /\ private_key = ValidKey
    /\ batch_size = 1
    /\ max_retries = DefaultMaxRetries
    /\ enabled = FALSE
    /\ events = <<>>
    /\ now = 0
    /\ drawn = 0
    /\ attempts = <<>>
    /\ last = NoCall @@ [op |-> "init"]
    /\ client = NoClients
    /\ opened = <<>>
    /\ task = NoTask
    /\ ledger = NoLedger
    /\ \/ call \in EncodeCalls
       \/ call \in VerifyCalls
       \/ call \in PrepareCalls
       \/ call \in DeriveCalls

\* What a call on an EthysClient leaves alone.
AccumulatorVars ==
    <<agent_id, address, private_key, batch_size, max_retries, enabled,
      events, now, drawn, attempts, last, task, ledger>>

\* What a method of EthysClient was seen to do.
Observed(fn, reply, used, result) ==
    [fn |-> fn, reply |-> reply, used |-> used, result |-> result]

NoReply == [transport |-> "none", status |-> 0, body |-> "none"]

\* EthysClient.get(path, params)
EthysClient_get ==
    /\ client.sync_client # 0 \/ Len(opened) < MaxClients
    /\ \E reply \in HttpReplies :
          LET got == get_sync_client(client, opened)
          IN  /\ client' = got.client
              /\ opened' = got.opened
              /\ call' = Observed("get", reply, got.client.sync_client,
                                  client_get(reply))
    /\ UNCHANGED AccumulatorVars

\* EthysClient.post(path, data, headers)
EthysClient_post ==
    /\ client.sync_client # 0 \/ Len(opened) < MaxClients
    /\ \E reply \in HttpReplies :
          LET got == get_sync_client(client, opened)
          IN  /\ client' = got.client
              /\ opened' = got.opened
              /\ call' = Observed("post", reply, got.client.sync_client,
                                  client_post(reply))
    /\ UNCHANGED AccumulatorVars

\* EthysClient.aget(path, params)
EthysClient_aget ==
    /\ client.async_client # 0 \/ Len(opened) < MaxClients
    /\ \E reply \in HttpReplies :
          LET got == get_async_client(client, opened)
          IN  /\ client' = got.client
              /\ opened' = got.opened
              /\ call' = Observed("aget", reply, got.client.async_client,
                                  client_aget(reply))
    /\ UNCHANGED AccumulatorVars

\* EthysClient.apost(path, data, headers)
EthysClient_apost ==
    /\ client.async_client # 0 \/ Len(opened) < MaxClients
    /\ \E reply \in HttpReplies :
          LET got == get_async_client(client, opened)
          IN  /\ client' = got.client
              /\ opened' = got.opened
              /\ call' = Observed("apost", reply, got.client.async_client,
                                  client_apost(reply))
    /\ UNCHANGED AccumulatorVars

\* EthysClient.close(), also called by __exit__
EthysClient_close ==
    /\ IF client.sync_client # 0
       THEN /\ opened' = [opened EXCEPT ![client.sync_client].closed = TRUE]
            /\ client' = [client EXCEPT !.sync_client = 0]
       ELSE UNCHANGED <<client, opened>>
    /\ call' = Observed("close", NoReply, client.sync_client, Return("None"))
    /\ UNCHANGED AccumulatorVars

\* EthysClient.aclose(), also called by __aexit__
EthysClient_aclose ==
    /\ IF client.async_client # 0
       THEN /\ opened' = [opened EXCEPT ![client.async_client].closed = TRUE]
            /\ client' = [client EXCEPT !.async_client = 0]
       ELSE UNCHANGED <<client, opened>>
    /\ call' = Observed("aclose", NoReply, client.async_client, Return("None"))
    /\ UNCHANGED AccumulatorVars

\* EthysTrustScoreTool.invoke / ainvoke
TrustScoreCalls ==
    { [fn |-> fn, state |-> "called",
       input |-> [agent_id |-> id, agent_id_key |-> key, reply |-> reply]] :
         fn \in {"_trust_score_sync", "_trust_score_async"},
         id \in OptionalAgentIds, key \in OptionalAgentIdKeys,
         reply \in HttpReplies }

trust_score_sync ==
    /\ call.fn = "_trust_score_sync"
    /\ call.state = "called"
    /\ call' = [state |-> "returned"]
                 @@ trust_score(call.input.agent_id, call.input.agent_id_key,
                                client_get(call.input.reply))
                 @@ call
    /\ UNCHANGED HandlerVars

trust_score_async ==
    /\ call.fn = "_trust_score_async"
    /\ call.state = "called"
    /\ call' = [state |-> "returned"]
                 @@ trust_score(call.input.agent_id, call.input.agent_id_key,
                                client_aget(call.input.reply))
                 @@ call
    /\ UNCHANGED HandlerVars

\* The trust-score tool about to be invoked.
InitTools ==
    /\ agent_id = "agent_1"
    /\ address = <<"0", "x", "a", "b">>
    /\ private_key = ValidKey
    /\ batch_size = 1
    /\ max_retries = DefaultMaxRetries
    /\ enabled = FALSE
    /\ events = <<>>
    /\ now = 0
    /\ drawn = 0
    /\ attempts = <<>>
    /\ last = NoCall @@ [op |-> "init"]
    /\ call \in TrustScoreCalls
    /\ client = NoClients
    /\ opened = <<>>
    /\ task = NoTask
    /\ ledger = NoLedger

\* An EthysClient on its own.
InitClient ==
    /\ agent_id = "agent_1"
    /\ address = <<"0", "x", "a", "b">>
    /\ private_key = ValidKey
    /\ batch_size = 1
    /\ max_retries = DefaultMaxRetries
    /\ enabled = FALSE
    /\ events = <<>>
    /\ now = 0
    /\ drawn = 0
    /\ attempts = <<>>
    /\ last = NoCall @@ [op |-> "init"]
    /\ call = NoFunctionCall
    /\ client = NoClients
    /\ opened = <<>>
    /\ task = NoTask
    /\ ledger = NoLedger

Next ==
    \/ on_llm_start
    \/ on_tool_end
    \/ flush
    \/ set_enabled
    \/ tick

Spec == Init /\ [][Next]_vars

SpecRetries == InitRetries /\ [][Next]_vars

SpecLedger == InitLedger /\ [][Next]_vars

NextConcurrent ==
    \/ on_llm_start
    \/ on_tool_end
    \/ tick
    \/ task_sign
    \/ task_post
    \/ task_answered

SpecConcurrent == InitConcurrent /\ [][NextConcurrent]_vars

NextDispose ==
    \/ last.op # "del" /\ Next
    \/ handler_del

SpecDispose == InitDispose /\ [][NextDispose]_vars

NextAuth ==
    \/ call_encode_agent_identity
    \/ call_verify_signature
    \/ call_prepare_telemetry_message
    \/ call_derive_agent_id_key

SpecAuth == InitAuth /\ [][NextAuth]_vars

NextClient ==
    \/ EthysClient_get
    \/ EthysClient_post
    \/ EthysClient_aget
    \/ EthysClient_apost
    \/ EthysClient_close
    \/ EthysClient_aclose

SpecClient == InitClient /\ [][NextClient]_vars

NextTools ==
    \/ trust_score_sync
    \/ trust_score_async

SpecTools == InitTools /\ [][NextTools]_vars

----------------------------------------------------------------------------
(* Properties of the accumulator. *)

\* The step was a callback that went past the opt-out test of _add_event.
Recorded == last'.op = "record" /\ last'.outcome # "disabled"

\* The batch as the callback of this step left it right after its append.
AppendedOne ==
    /\ Len(last'.batch) = Len(events) + 1
    /\ SubSeq(last'.batch, 1, Len(events)) = events

\* The step ran a submission attempt (entered the try block of
\* _send_telemetry) that did not end in a confirmed success.
FailedAttempt == last'.tried /\ last'.outcome # "success"

\* C1: a flush whose submission does not end in a confirmed success leaves
\* the batch exactly as it was before the flush, events and order: after
\* flush() the batch is the batch before the call, and after a callback that
\* reached the threshold it is the batch before the call plus the one event
\* the callback appended.
C1_FailedFlushRetainsBatch ==
    [][FailedAttempt =>
          /\ events' = last'.batch
          /\ last'.op = "flush" => events' = events
          /\ last'.op = "record" => AppendedOne]_vars

\* A flush was answered by a response that could not be parsed as a
\* telemetry response, and the two events of the batch are still there.
C1_Witness ==
    /\ last.op = "flush"
    /\ last.posted # <<>>
    /\ last.outcome = "pydantic.ValidationError"
    /\ Len(events) = 2
    /\ events = last.batch

\* C2: a submission answered with success=true leaves the batch empty, and
\* no step empties a batch that held events unless its submission was
\* posted and answered with success=true.
C2_ClearedOnlyOnSuccess ==
    [][/\ last'.outcome = "success" => events' = <<>>
       /\ (events' = <<>> /\ (events # <<>> \/ Recorded))
             => last'.outcome = "success" /\ last'.posted # <<>>]_vars

\* A batch of two events was posted, confirmed and cleared.
C2_Witness ==
    /\ last.outcome = "success"
    /\ Len(last.batch) = 2
    /\ last.posted # <<>>
    /\ events = <<>>

\* C3: no callback and no flush raises to its caller, whatever went wrong
\* inside the submission.
C3_NeverRaises == last.raised = "none"

\* A callback reached the threshold, the POST failed with an exception that
\* is not one of the library's own, and the callback returned normally.
C3_Witness ==
    /\ last.op = "record"
    /\ last.posted # <<>>
    /\ last.outcome = "httpx.ConnectError"
    /\ last.warned
    /\ last.raised = "none"

\* C4: while the batch stays below the threshold an enabled callback only
\* appends its event: the batch grows by exactly that event and no
\* submission is attempted.  From the empty batch, N < batch_size callbacks
\* therefore leave exactly N events and no attempt.
C4_BelowThresholdNoSubmission ==
    [][(Recorded /\ Len(events) + 1 < batch_size) =>
          /\ Len(events') = Len(events) + 1
          /\ SubSeq(events', 1, Len(events)) = events
          /\ events'[Len(events')].timestamp = now
          /\ last'.sends = 0
          /\ last'.posted = <<>>
          /\ attempts' = attempts]_vars

\* Events were recorded below the threshold and nothing was ever submitted.
C4_Witness ==
    /\ last.op = "record"
    /\ last.sends = 0
    /\ events # <<>>
    /\ Len(events) = batch_size - 1
    /\ attempts = <<>>

\* C5: the callback that brings the batch to exactly the threshold makes,
\* within the call, exactly one submission attempt, over the whole batch
\* with the new event last; what it posts lists all those events.
C5_ThresholdTriggersOneSubmission ==
    [][(Recorded /\ Len(events) + 1 = batch_size) =>
          /\ last'.sends = 1
          /\ last'.tried
          /\ Len(attempts') = Len(attempts) + 1
          /\ AppendedOne
          /\ Len(last'.posted) <= 1
          /\ \A i \in DOMAIN last'.posted :
                last'.posted[i].events = last'.batch]_vars

\* A callback filled a batch of two and its submission was posted.
C5_Witness ==
    /\ last.op = "record"
    /\ last.tried
    /\ Len(last.posted) = 1
    /\ batch_size = 2
    /\ Len(last.batch) = batch_size

\* C6 as stated: at rest the batch is empty or strictly below the threshold.
C6_TwoStatesOnly == events = <<>> \/ Len(events) < batch_size

\* C6, amended: there is a third resting state, a retained batch at or
\* above the threshold.  A step leaves a non-empty batch at or above the
\* threshold only by a submission attempt over that whole batch that did
\* not end in a confirmed success, or by not touching a batch that was
\* already there.
C6_RetainedOnlyAfterFailure ==
    [][(events' # <<>> /\ Len(events') >= batch_size) =>
          \/ FailedAttempt /\ last'.batch = events'
          \/ Len(events) >= batch_size /\ events' = events]_vars

\* A retained batch rests above the threshold after a failed submission.
C6_Witness ==
    /\ Len(events) > batch_size
    /\ last.tried
    /\ last.outcome = "rejected"
    /\ last.batch = events

\* C7: while the handler is disabled a callback changes nothing: the batch
\* is the same, nothing is drawn, signed or posted.
C7_DisabledRecordIsNoOp ==
    [][(last'.op = "record" /\ ~enabled) =>
          /\ events' = events
          /\ drawn' = drawn
          /\ attempts' = attempts
          /\ last'.sends = 0
          /\ last'.signed = <<>>
          /\ last'.posted = <<>>]_vars

\* A callback arrived while the handler was disabled and held a retained
\* batch.
C7_Witness ==
    /\ last.op = "record"
    /\ last.outcome = "disabled"
    /\ ~enabled
    /\ Len(events) >= batch_size

\* C8: flush on an empty batch or on a disabled handler does nothing: no
\* nonce is drawn, nothing is signed or posted, the batch is unchanged.
C8_FlushNoOpWhenEmptyOrDisabled ==
    [][(last'.op = "flush" /\ (events = <<>> \/ ~enabled)) =>
          /\ events' = events
          /\ drawn' = drawn
          /\ attempts' = attempts
          /\ ~last'.tried
          /\ last'.nonces = <<>>
          /\ last'.signed = <<>>
          /\ last'.posted = <<>>]_vars

\* flush was called on a disabled handler that held events.
C8_Witness ==
    /\ last.op = "flush"
    /\ last.outcome = "skipped"
    /\ ~enabled
    /\ events # <<>>

\* C9: the posted body carries the values the signature covers: agentId,
\* ts, nonce, the events in order, and the address in the lower-case form
\* of the signed payload.
C9_BodyMatchesSignedPayload ==
    \A i \in DOMAIN last.posted :
        LET body == last.posted[i]
            message == last.signed[i].message
        IN  /\ body.signature = last.signed[i]
            /\ body.agentId = message.agentId
            /\ body.ts = message.ts
            /\ body.nonce = message.nonce
            /\ body.events = message.events
            /\ body.address = message.address

\* C10: every submission attempt draws its own nonce, which is the one it
\* signs and posts; no two attempts, a retry of a retained batch included,
\* carry the same nonce.
C10_FreshNoncePerAttempt ==
    /\ \A i, j \in DOMAIN attempts : i # j => attempts[i] # attempts[j]
    /\ last.tried =>
          /\ Len(last.nonces) = 1
          /\ attempts # <<>>
          /\ attempts[Len(attempts)] = last.nonces[1]
    /\ \A i \in DOMAIN last.posted :
          /\ last.posted[i].nonce = last.nonces[1]
          /\ last.signed[i].message.nonce = last.nonces[1]

\* A retained batch was submitted a second time.
C10_Witness ==
    /\ Len(attempts) = 2
    /\ last.op = "flush"
    /\ last.posted # <<>>
    /\ events = last.batch

\* C11: a signing failure in a submission attempt (a malformed key, a batch
\* json.dumps cannot serialize) sends nothing, keeps the batch as it was
\* handed to the attempt and raises nothing to the caller.
C11_SigningFailureRetains ==
    (last.tried /\ last.signed = <<>>) =>
        /\ last.outcome \in {"ValueError", "TypeError"}
        /\ last.posted = <<>>
        /\ events = last.batch
        /\ events # <<>>
        /\ last.raised = "none"
        /\ last.warned

\* flush ran with a usable key on a batch holding an event that json.dumps
\* rejects.
C11_Witness ==
    /\ last.op = "flush"
    /\ last.tried
    /\ private_key = ValidKey
    /\ last.outcome = "TypeError"
    /\ last.signed = <<>>
    /\ Len(events) = 2

C13_DisposalFlushesOnce ==
    last.op = "del" =>
        /\ last.sends = 1
        /\ last.raised = "none"
        /\ Len(last.posted) <= 1
        /\ Len(last.nonces) <= 1
        /\ (~enabled \/ last.batch = <<>>) =>
              /\ ~last.tried
              /\ last.nonces = <<>>
              /\ last.signed = <<>>
              /\ last.posted = <<>>
              /\ events = last.batch
        /\ (enabled /\ last.batch # <<>>) => last.tried

\* The handler was collected with a batch to send and the connection failed.
C13_Witness ==
    /\ last.op = "del"
    /\ last.outcome = "httpx.ConnectError"
    /\ Len(last.posted) = 1
    /\ last.raised = "none"
    /\ events = last.batch

\* C14: the batch keeps insertion order.  Every step leaves the batch as it
\* was, or with one event added at its end, or empty; it is emptied only
\* when exactly the events it held, in their order, were posted and
\* confirmed.  Every submission signs and posts the batch in that order,
\* the event of the calling callback last.
C14_InsertionOrderKept ==
    [][/\ \/ events' = events
          \/ events' = <<>>
          \/ /\ Len(events') = Len(events) + 1
             /\ SubSeq(events', 1, Len(events)) = events
       /\ last'.sends = 1 =>
             /\ Len(last'.batch) \in {Len(events), Len(events) + 1}
             /\ SubSeq(last'.batch, 1, Len(events)) = events
             /\ events' \in {last'.batch, <<>>}
       /\ \A i \in DOMAIN last'.posted :
             /\ last'.posted[i].events = last'.batch
             /\ last'.signed[1].message.events = last'.batch
       /\ (events' = <<>> /\ last'.sends = 1 /\ last'.batch # <<>>) =>
             last'.outcome = "success" /\ last'.posted # <<>>]_vars

\* Three events, the first two retained from a failed submission, were
\* posted in the order they were recorded.
C14_Witness ==
    /\ Len(attempts) = 2
    /\ last.op = "record"
    /\ Len(last.posted) = 1
    /\ Len(last.posted[1].events) = 3
    /\ last.posted[1].events[1].eventType = "llm_start"
    /\ last.posted[1].events[2].eventType = "tool_end"
    /\ last.posted[1].events[3].eventType = "llm_start"
    /\ events = last.batch

\* The numbers of the events of the batch.
InBatch == {ledger.ids[p] : p \in 1 .. Len(ledger.ids)}

\* C24: every event recorded while enabled is still in the batch, or was
\* carried by exactly one confirmed submission, and never both; none is
\* dropped and none is part of two confirmed submissions.
C24_RecordedEventsAccounted ==
    ledger.on =>
        /\ Len(ledger.ids) = Len(events)
        /\ \A p, q \in 1 .. Len(ledger.ids) : ledger.ids[p] = ledger.ids[q] => p = q
        /\ \A n \in 1 .. Len(ledger.confirmed) :
              \/ n \in InBatch /\ ledger.confirmed[n] = 0
              \/ n \notin InBatch /\ ledger.confirmed[n] = 1

\* Of three recorded events the first two were confirmed together, after a
\* failed submission had retained them, and the third is in the batch.
C24_Witness ==
    /\ ledger.on
    /\ ledger.confirmed = <<1, 1, 0>>
    /\ ledger.ids = <<3>>
    /\ Len(attempts) = 2
    /\ Len(events) = 1

\* C26: once a failed submission has left the batch at or above the
\* threshold, every later callback (while enabled) appends its event and
\* makes exactly one submission attempt, over the whole retained batch with
\* the new event last; when that attempt fails too the batch has grown by
\* one and holds every event.
C26_RetainedBatchResubmittedOnRecord ==
    [][(Recorded /\ Len(events) >= batch_size) =>
          /\ AppendedOne
          /\ last'.sends = 1
          /\ last'.tried
          /\ Len(attempts') = Len(attempts) + 1
          /\ Len(last'.posted) <= 1
          /\ \A i \in DOMAIN last'.posted :
                Len(last'.posted[i].events) = Len(events) + 1
          /\ FailedAttempt =>
                /\ Len(events') = Len(events) + 1
                /\ SubSeq(events', 1, Len(events)) = events
                /\ events'[Len(events')] = last'.batch[Len(last'.batch)]]_vars

\* A second submission failed as the first had: the batch is one above the
\* threshold and the request carried all of it.
C26_Witness ==
    /\ last.op = "record"
    /\ last.tried
    /\ last.outcome \notin {"success", "none"}
    /\ Len(attempts) = 2
    /\ Len(events) = batch_size + 1
    /\ last.posted # <<>>
    /\ Len(last.posted[1].events) = batch_size + 1

\* C27: when the accumulator is enabled and the remote endpoint answers
\* with success, a flush leaves the batch empty, whatever events were
\* retained from earlier failures: the flush either is answered success or
\* fails before it asks the endpoint anything.
C27_FlushDeliversWhenRemoteSucceeds ==
    [][(/\ last'.op = "flush"
        /\ last'.tried
        /\ last'.outcome = "success" \/ last'.posted = <<>>)
       => events' = <<>>]_vars

\* C30: with a clock that never goes backwards, the events of the batch
\* and of every submission have non-decreasing timestamps in batch order,
\* and the timestamp ts of a submission is at least the timestamp of every
\* event it carries, retained events included.
C30_TimestampsOrdered ==
    /\ \A i, j \in 1 .. Len(events) :
          i <= j => events[i].timestamp <= events[j].timestamp
    /\ \A i \in 1 .. Len(events) : events[i].timestamp <= now
    /\ \A r \in 1 .. Len(last.posted) :
          LET body == last.posted[r]
          IN  /\ \A i, j \in 1 .. Len(body.events) :
                    i <= j => body.events[i].timestamp <= body.events[j].timestamp
              /\ \A i \in 1 .. Len(body.events) :
                    body.events[i].timestamp <= body.ts

\* A submission at time 1 carried an event recorded at time 0 and retained
\* by a failed flush, and one recorded at time 1.
C30_Witness ==
    /\ last.posted # <<>>
    /\ Len(last.posted[1].events) = 2
    /\ last.posted[1].events[1].timestamp = 0
    /\ last.posted[1].events[2].timestamp = 1
    /\ last.posted[1].ts = 1
    /\ Len(attempts) = 2

\* The background task sends its request, and is answered.
TaskPosts == task.pc = "signed" /\ task'.pc = "posted"
TaskAnswered == task.pc = "posted" /\ task'.pc = "idle"

\* C25: with flush in a background task and records on the workflow
\* thread, the request body carries exactly the events the signature was
\* computed over, and the answer to a submission removes from the batch no
\* event that the submission did not carry.
C25_BackgroundFlushKeepsLaterEvents ==
    [][/\ TaskPosts =>
            task'.posted[1].events = task.signature.message.events
       /\ TaskAnswered =>
            \A p \in DOMAIN ledger.ids :
               (\A q \in DOMAIN task.ids : task.ids[q] # ledger.ids[p])
                  => \E r \in DOMAIN ledger'.ids :
                        ledger'.ids[r] = ledger.ids[p]]_vars

----------------------------------------------------------------------------
(* Properties of auth.py. *)

\* The address is 0x followed by 40 hexadecimal digits: it denotes 20 bytes.
Denotes20Bytes(addr) ==
    /\ Len(addr) = 42
    /\ addr[1] = "0"
    /\ addr[2] = "x"
    /\ \A i \in 3 .. 42 : addr[i] \in HexDigits

\* The big-endian value of a sequence of bytes that ends at position `to`.
RECURSIVE BigEndianValue(_, _, _)
BigEndianValue(b, from, to) ==
    IF to < from THEN 0
    ELSE 256 * BigEndianValue(b, from, to - 1) + b[to]

\* The call encoded a valid identity: a version of one byte, a recognized
\* kind, an address of 20 bytes, a token id that is absent or not negative.
EncodedValid ==
    /\ call.fn = "encode_agent_identity"
    /\ call.state = "returned"
    /\ call.identity.raised = "none"
    /\ call.identity.value[1].identity_type \in {"EOA", "ERC6551"}
    /\ call.input.version \in 0 .. 255
    /\ Denotes20Bytes(call.input.address)
    /\ call.input.token_id # <<>> => call.input.token_id[1] >= 0

\* Bytes 22..53 (counted from 0) are the 32-byte big-endian form of a token
\* id below 2^24: 29 zero bytes and the three bytes of its value.
TokenBytesAre(b, token) ==
    /\ \A i \in 23 .. 51 : b[i] = 0
    /\ BigEndianValue(b, 52, 54) = token

\* The layout of the first 22 bytes, and the length.
LayoutOfHead(b, identity) ==
    /\ Len(b) = 54
    /\ \A i \in 1 .. 54 : b[i] \in 0 .. 255
    /\ b[1] = identity.version
    /\ b[2] = (IF identity.identity_type = "EOA" THEN 1 ELSE 2)
    /\ \A j \in 1 .. 20 :
          b[2 + j] = 16 * HexVal(call.input.address[2 * j + 1])
                        + HexVal(call.input.address[2 * j + 2])

\* C15 as stated: for every valid identity the encoding is 54 bytes:
\* version, kind discriminant, the 20 address bytes, and the tokenId as 32
\* big-endian bytes, zero when the tokenId is absent.
C15_LayoutWithTokenIdOfBothKinds ==
    EncodedValid =>
        /\ call.result.raised = "none"
        /\ LayoutOfHead(call.result.value[1], call.identity.value[1])
        /\ TokenBytesAre(call.result.value[1],
                         IF call.input.token_id = <<>> THEN 0
                         ELSE call.input.token_id[1])

\* C15, amended: the last 32 bytes hold the tokenId of an ERC6551 identity
\* and are zero for every EOA identity, whose token_id is not encoded, and
\* when the tokenId is absent.
C15_EncodingLayout ==
    EncodedValid =>
        /\ call.result.raised = "none"
        /\ LayoutOfHead(call.result.value[1], call.identity.value[1])
        /\ TokenBytesAre(call.result.value[1],
                         IF call.identity.value[1].identity_type = "EOA"
                            \/ call.input.token_id = <<>>
                         THEN 0
                         ELSE call.input.token_id[1])

\* An ERC6551 identity with token id 258 and a mixed-case address was
\* encoded: the last two bytes are 1 and 2.
C15_Witness ==
    /\ EncodedValid
    /\ call.identity.value[1].identity_type = "ERC6551"
    /\ call.input.token_id = <<258>>
    /\ call.input.address[3] = "A"
    /\ call.result.raised = "none"
    /\ call.result.value[1][53] = 1
    /\ call.result.value[1][54] = 2
    /\ call.result.value[1][3] = 171

\* C16: when the kind is not one of the two recognized values or the
\* address does not denote exactly 20 bytes, constructing or encoding the
\* identity fails with ValidationError: nothing is encoded and no other
\* error type escapes.
C16_InvalidIdentityRejected ==
    (/\ call.fn = "encode_agent_identity"
     /\ call.state = "returned"
     /\ \/ call.input.identity_type \notin {"EOA", "ERC6551"}
        \/ call.input.retype \notin {"unassigned", "EOA", "ERC6551"}
        \/ ~Denotes20Bytes(call.input.address))
    => call.result.raised \in {"pydantic.ValidationError", "ethys.ValidationError"}

\* The key of the call is the key of an account, its digits in either
\* case, with or without the prefix 0x.
KeyOfAccount ==
    /\ call.fn = "verify_signature"
    /\ call.state = "returned"
    /\ \E hexkey \in AccountKeys, digits \in {call.input.key, <<"0", "x">> \o call.input.key} :
          /\ Len(digits) = Len(hexkey) + 2
          /\ digits[1] = "0"
          /\ digits[2] = "x"
          /\ \A i \in 1 .. Len(hexkey) : LowerChar(digits[i + 2]) = hexkey[i]

\* The address of the account that the key of the call belongs to.
AccountAddress ==
    LET n == Len(call.input.key)
    IN  address_of(Lower(SubSeq(call.input.key, n - 1, n)))

\* C18: for every message and every valid private key, given with or
\* without the 0x prefix, the signature that sign_message returns is
\* verified against the address of the key, in whatever letter case the
\* address is given.
C18_SignVerifyRoundTrip ==
    (/\ KeyOfAccount
     /\ call.input.tampering = "genuine"
     /\ Lower(call.input.expected) = Lower(AccountAddress))
    => /\ call.signed.raised = "none"
       /\ call.result = Return(TRUE)

\* A key without prefix signed, and the signature was verified against the
\* lower-case form of an address that has upper-case letters.
C18_Witness ==
    /\ KeyOfAccount
    /\ call.input.key = <<"b", "2">>
    /\ call.input.tampering = "genuine"
    /\ call.input.expected = <<"0", "x", "c", "d">>
    /\ AccountAddress = <<"0", "x", "c", "D">>
    /\ call.result = Return(TRUE)

\* C19: verify_signature never raises and returns a boolean, which is
\* false when the signature is malformed or corrupted and when the signer
\* it recovers is not the expected address.
C19_VerifyTotal ==
    (/\ call.fn = "verify_signature"
     /\ call.state = "returned"
     /\ call.signed.raised = "none")
    => /\ call.result.raised = "none"
       /\ call.result.value[1] \in BOOLEAN
       /\ (\/ call.input.tampering # "genuine"
           \/ Lower(call.input.expected) # Lower(call.signed.value[1].signer))
          => call.result.value[1] = FALSE

\* A truncated signature and one that is on no curve point were refused,
\* without an exception.
C19_Witness ==
    /\ call.fn = "verify_signature"
    /\ call.state = "returned"
    /\ call.signed.raised = "none"
    /\ call.input.tampering \in {"truncated", "off_curve"}
    /\ Lower(call.input.expected) = Lower(call.signed.value[1].signer)
    /\ call.result = Return(FALSE)

\* Two Python values have the same content: dicts the same keys with the
\* same content under each, whatever their insertion order; lists the same
\* content at each position.
RECURSIVE SameContent(_, _)
SameContent(a, b) ==
    /\ a.t = b.t
    /\ CASE a.t = "str" -> a.s = b.s
         [] a.t = "int" -> a.n = b.n
         [] a.t = "list" ->
               /\ Len(a.elems) = Len(b.elems)
               /\ \A i \in 1 .. Len(a.elems) : SameContent(a.elems[i], b.elems[i])
         [] a.t = "dict" ->
               /\ {a.items[i][1] : i \in 1 .. Len(a.items)}
                     = {b.items[j][1] : j \in 1 .. Len(b.items)}
               /\ \A i \in 1 .. Len(a.items), j \in 1 .. Len(b.items) :
                     a.items[i][1] = b.items[j][1]
                        => SameContent(a.items[i][2], b.items[j][2])

\* The two calls have the same logical arguments.
SameArguments(a, b) ==
    /\ a.agent_id = b.agent_id
    /\ Lower(a.address) = Lower(b.address)
    /\ a.timestamp = b.timestamp
    /\ a.nonce = b.nonce
    /\ SameContent([t |-> "list", elems |-> a.events],
                   [t |-> "list", elems |-> b.events])

\* C20: two calls of prepare_telemetry_message with equal agent id,
\* timestamp, nonce and events, and addresses equal up to letter case,
\* return the identical string, whatever the insertion order of the keys of
\* the events and of their data.
C20_SameContentSameMessage ==
    (/\ call.fn = "prepare_telemetry_message"
     /\ call.state = "returned"
     /\ SameArguments(call.input.first, call.input.second))
    => call.result.first = call.result.second

\* Two calls whose addresses differ in letter case and whose events were
\* built with their keys in different orders returned the same text.
C20_Witness ==
    /\ call.fn = "prepare_telemetry_message"
    /\ call.state = "returned"
    /\ SameArguments(call.input.first, call.input.second)
    /\ call.input.first.address # call.input.second.address
    /\ Len(call.input.first.events) = 1
    /\ call.input.first.events[1].items[1][1] # call.input.second.events[1].items[1][1]
    /\ call.result.first = call.result.second

\* The token id an identity is encoded with according to the claim: 0 for
\* every EOA identity and for an absent token_id.
EffectiveTokenId(a) ==
    IF a.identity_type = "EOA" \/ a.token_id = <<>> THEN 0 ELSE a.token_id[1]

\* C28: two identities have the same encoding, and so the same
\* agentIdKey, exactly when they agree on version, kind, lower-cased
\* address and effective tokenId.
C28_SameKeyIffSameIdentity ==
    (/\ call.fn = "derive_agent_id_key"
     /\ call.state = "returned"
     /\ call.result.first.raised = "none"
     /\ call.result.second.raised = "none")
    => ((call.result.first = call.result.second)
        <=> /\ call.input.first.version = call.input.second.version
            /\ call.input.first.identity_type = call.input.second.identity_type
            /\ Lower(call.input.first.address) = Lower(call.input.second.address)
            /\ EffectiveTokenId(call.input.first)
                  = EffectiveTokenId(call.input.second))

----------------------------------------------------------------------------
(* Properties of client.py. *)

\* A request method of EthysClient returned or raised on an answer with an
\* HTTP error status.
ErrorStatusAnswered ==
    /\ call.fn \in {"get", "post", "aget", "apost"}
    /\ call.reply.transport = "ok"
    /\ call.reply.status >= 400

\* The text of the body is JSON.
IsJson(body) == body \notin {"not_json", "empty_text"}

\* C21 as stated: a response with an HTTP error status raises ApiError
\* whose status_code is the status and whose response_body is the parsed
\* JSON body, or {"error": raw text} when the body is not JSON.
C21_ApiErrorCarriesParsedBody ==
    ErrorStatusAnswered =>
        /\ call.result.raised = "ethys.ApiError"
        /\ call.result.status_code = call.reply.status
        /\ call.result.response_body =
              (IF IsJson(call.reply.body)
               THEN Wrapped("none", call.reply.body)
               ELSE Wrapped("error", call.reply.body))

\* C21, amended: the response_body is the parsed JSON body unless that is
\* null or empty, in which case it is {}.
C21_ApiErrorOnErrorStatus ==
    ErrorStatusAnswered =>
        /\ call.result.raised = "ethys.ApiError"
        /\ call.result.value = <<>>
        /\ call.result.status_code = call.reply.status
        /\ call.result.response_body =
              (IF ~IsJson(call.reply.body)
               THEN Wrapped("error", call.reply.body)
               ELSE IF call.reply.body \in {"json_null", "json_empty_list"}
               THEN Wrapped("none", "json_empty_object")
               ELSE Wrapped("none", call.reply.body))

\* An asynchronous GET was answered 404 with an empty JSON list, and the
\* error carries {}.
C21_Witness ==
    /\ ErrorStatusAnswered
    /\ call.fn = "aget"
    /\ call.reply.status = 404
    /\ call.reply.body = "json_empty_list"
    /\ call.result.raised = "ethys.ApiError"
    /\ call.result.response_body = Wrapped("none", "json_empty_object")

\* C22: a request that fails at the transport level raises TimeoutError
\* when it timed out and NetworkError for every other transport failure.
C22_TransportFailureIsLibraryError ==
    (/\ call.fn \in {"get", "post", "aget", "apost"}
     /\ call.reply.transport # "ok")
    => call.result.raised =
          (IF call.reply.transport = "timeout" THEN "ethys.TimeoutError"
                                               ELSE "ethys.NetworkError")

\* The httpx clients of one kind that are open.
Open(kind) ==
    {i \in 1 .. Len(opened) : opened[i].kind = kind /\ ~opened[i].closed}

\* Each reference is None and no client of its kind is open, or it is the
\* one open client of its kind.
ClientsConsistent ==
    /\ Open("sync") = (IF client.sync_client = 0 THEN {} ELSE {client.sync_client})
    /\ Open("async") = (IF client.async_client = 0 THEN {} ELSE {client.async_client})

\* What one call did to the clients: a request opens a client of its kind
\* only when there is none and uses the one there is, close and aclose
\* close the client of their kind and nothing else.
ClientStep ==
    /\ call'.fn \in {"get", "post"} =>
          /\ client'.async_client = client.async_client
          /\ call'.used = client'.sync_client
          /\ IF client.sync_client # 0
             THEN client' = client /\ opened' = opened
             ELSE /\ opened' = Append(opened, [kind |-> "sync", closed |-> FALSE])
                  /\ client'.sync_client = Len(opened')
    /\ call'.fn \in {"aget", "apost"} =>
          /\ client'.sync_client = client.sync_client
          /\ call'.used = client'.async_client
          /\ IF client.async_client # 0
             THEN client' = client /\ opened' = opened
             ELSE /\ opened' = Append(opened, [kind |-> "async", closed |-> FALSE])
                  /\ client'.async_client = Len(opened')
    /\ call'.fn = "close" =>
          /\ client' = [client EXCEPT !.sync_client = 0]
          /\ Len(opened') = Len(opened)
          /\ \A i \in 1 .. Len(opened) :
                opened'[i] = IF i = client.sync_client
                             THEN [opened[i] EXCEPT !.closed = TRUE]
                             ELSE opened[i]
    /\ call'.fn = "aclose" =>
          /\ client' = [client EXCEPT !.async_client = 0]
          /\ Len(opened') = Len(opened)
          /\ \A i \in 1 .. Len(opened) :
                opened'[i] = IF i = client.async_client
                             THEN [opened[i] EXCEPT !.closed = TRUE]
                             ELSE opened[i]

\* C29: EthysClient holds at most one open sync and at most one open async
\* httpx client: each is created on the first request of its kind and
\* reused afterwards, close and aclose close only their own kind and reset
\* it, so that a later request opens a new one, and do nothing when none
\* is open.
C29_OneClientPerKind == [][ClientStep /\ ClientsConsistent']_vars

\* A sync client was closed, a request opened a second one, and an async
\* client is open beside it.
C29_Witness ==
    /\ Len(opened) = 3
    /\ opened[1] = [kind |-> "sync", closed |-> TRUE]
    /\ client.sync_client = 3
    /\ client.async_client = 2
    /\ call.fn = "post"
    /\ ClientsConsistent

----------------------------------------------------------------------------
(* Properties of tools.py. *)

\* The aliases of the identifiers that are given: neither None nor empty.
GivenIdentifiers ==
    (IF NotGiven(call.input.agent_id) THEN {} ELSE {"agentId"})
       \cup (IF NotGiven(call.input.agent_id_key) THEN {} ELSE {"agentIdKey"})

\* C23: the trust-score tool called with neither identifier (both absent
\* or empty) raises ValidationError before a client is created or a
\* request sent; with at least one identifier it sends exactly one GET
\* whose query holds only the identifiers that are given.
C23_TrustScoreQueryHoldsGivenIdentifiers ==
    (/\ call.fn \in {"_trust_score_sync", "_trust_score_async"}
     /\ call.state = "returned")
    => IF GivenIdentifiers = {}
       THEN /\ call.result = Raise("ethys.ValidationError")
            /\ call.clients = 0
            /\ call.requests = <<>>
       ELSE /\ Len(call.requests) = 1
            /\ call.requests[1].method = "GET"
            /\ {call.requests[1].params[i][1] :
                   i \in 1 .. Len(call.requests[1].params)} = GivenIdentifiers

====
